---- MODULE Spec2Model ----
(***************************************************************************)
(* Model of the setup step runner of hive-mcp-cli (package setup):         *)
(* the Step interface, Result, Runner, NewRunner, Runner.RunAll and         *)
(* Runner.RollbackFrom.                                                     *)
(*                                                                          *)
(* A Step is an external collaborator: what its Check(), Run() and          *)
(* Rollback() return is not decided by the runner, so every call draws its  *)
(* outcome from the values the interface allows.  The calls the runner      *)
(* makes are recorded in the history variable trace.                        *)
(***************************************************************************)
EXTENDS Integers, Sequences, FiniteSets, TLC

\* Longest step list handed to NewRunner.
MaxSteps == 3

\* RunAll is not started again on a Runner when its invocations could together
\* append more Results than this (each may append one Result per step, and
\* Results is only ever appended to).
MaxResults == 6

\* RunAll is invoked at most this many times on one Runner.
MaxRunAll == 2

\* The nil error.
Nil == "nil"

\* Errors the collaborators' Check(), Run() and Rollback() may return.
CheckErrs == {"probe failed"}
RunErrs == {"disk full", "no network"}
RollbackErrs == {"undo failed"}

\* Step.Name() of the step with identity s.
GenericNames == <<"A", "B", "C", "D", "E", "F", "G", "H">>

\* The steps of `hive setup`, told apart from the steps above by their number.
CloneStep == Len(GenericNames) + 1
ShellStep == CloneStep + 1
PrerequisitesStep == ShellStep + 1
CloneDepsStep == PrerequisitesStep + 1
DoomSyncStep == CloneDepsStep + 1
ChromaStep == DoomSyncStep + 1
OllamaStep == ChromaStep + 1
EmacsDaemonStep == OllamaStep + 1
MCPStep == EmacsDaemonStep + 1

\* Their Name(), in the order of the numbers.
SetupNames ==
    << "Clone hive-mcp repository",
       "Configure shell environment",
       "Install system prerequisites",
       "Download Clojure dependencies",
       "Sync Doom Emacs packages",
       "Start Docker services (Chroma)",
       "Setup Ollama with nomic-embed-text model",
       "Start Emacs daemon",
       "Register MCP server with Claude CLI" >>

Name(s) == (GenericNames \o SetupNames)[s]

VARIABLES
    Steps,      \* Runner.Steps: the step identities, in input order
    Results,    \* Runner.Results
    OnStart,    \* Runner.OnStart is non-nil
    OnDone,     \* Runner.OnDone is non-nil
    pc,         \* where the caller's thread is: "idle" (in no method), or a place in RunAll / RollbackFrom
    idx,        \* RunAll: 1-based position of the range loop in Steps
    chk,        \* RunAll: (done, err) as returned by step.Check()
    runErr,     \* RunAll: err as returned by step.Run()
    ret,        \* what the last RunAll returned
    rbIndex,    \* RollbackFrom: its argument index
    rbI,        \* RollbackFrom: the loop variable i (0-based, as in the source)
    rbErrors,   \* RollbackFrom: the local errors, and what it returned
    trace,      \* history: the calls made by the method invocation in progress (or the last one)
    last,       \* history: the method that was invoked last
    runs,       \* history: RunAll invocations begun on this Runner
    base,       \* history: len(Results) when the RunAll invocation began
    world,      \* the system the steps act on: the steps whose goal state holds
    budget,     \* per step, how many more times its Run() may fail
    runLog,     \* history: per step, its Run() calls over all invocations, with the world they met
    behav,      \* per step, what its Check() and Run() return (when fixed in advance)
    snap,       \* what an earlier Runner over the same steps did and returned
    pre,        \* history: the steps whose goal state held before the first run
    conn,       \* checkEmacsMCPConnection: its thread, its goroutine, the command, the timer
    chroma      \* ChromaStep.Run: its place, its loop variable, the probes made

\* Code that runs apart from the Runner: the doctor's connection check and the
\* inside of ChromaStep.Run; and what was on the machine before `hive setup`.
apartVars == <<pre, conn, chroma>>

\* The steps' side: the system they probe and change, and what they return.
envVars == <<world, budget, runLog, behav, snap, apartVars>>

\* The Runner, the locals of its methods, and the history of their calls.
runnerVars == <<Steps, Results, OnStart, OnDone, pc, idx, chk, runErr, ret,
                rbIndex, rbI, rbErrors, trace, last, runs, base>>

vars == <<Steps, Results, OnStart, OnDone, pc, idx, chk, runErr, ret,
          rbIndex, rbI, rbErrors, trace, last, runs, base, envVars>>

runVars == <<idx, chk, runErr>>
rbVars == <<rbIndex, rbI, rbErrors>>

----------------------------------------------------------------------------
\* Values

\* type Result struct { StepName string; Skipped bool; Error error }
Result(name, skipped, err) == [StepName |-> name, Skipped |-> skipped, Error |-> err]

\* Mutant of Errorf: %v in place of %w, the error is formatted and not wrapped.
Errorf_NotWrapping(msg, name, err) == [msg |-> msg, name |-> name, wraps |-> Nil]

\* fmt.Errorf("<msg> %s: %w", name, err): an error that carries the message
\* and the step name and wraps err.
Errorf(msg, name, err) == [msg |-> msg, name |-> name, wraps |-> err]

NoReturn == [msg |-> "none", name |-> "", wraps |-> Nil]
NilReturn == [msg |-> "nil", name |-> "", wraps |-> Nil]

\* One recorded call.  flag is Check's done or OnDone's skipped, err the error
\* returned (Check, Run, Rollback) or passed (OnDone), len is len(Results) at the call.
Call(op, s, flag, err) ==
    [op |-> op, step |-> s, flag |-> flag, err |-> err, len |-> Len(Results)]

\* The observers are called only when non-nil.
CallIf(set, c) == IF set THEN <<c>> ELSE <<>>

----------------------------------------------------------------------------
\* NewRunner(steps), followed by the caller's optional replacement of the
\* exported callback fields by nil.

NewRunner(steps, onStart, onDone) ==
    /\ Steps = steps
    /\ Results = <<>>
    /\ OnStart = onStart
    /\ OnDone = onDone
    /\ pc = "idle"
    /\ idx = 0
    /\ chk = [done |-> FALSE, err |-> Nil]
    /\ runErr = Nil
    /\ ret = NoReturn
    /\ rbIndex = 0
    /\ rbI = 0
    /\ rbErrors = <<>>
    /\ trace = <<>>
    /\ last = "NewRunner"
    /\ runs = 0
    /\ base = 0

\* A Runner over n steps that are told apart by their place in the list.
NewRunnerOver(n, onStart, onDone) == NewRunner([i \in 1..n |-> i], onStart, onDone)

\* Neither checkEmacsMCPConnection nor ChromaStep.Run is looked into.
NothingApart ==
    /\ pre = {}
    /\ conn = <<>>
    /\ chroma = <<>>

\* Nothing is assumed of the steps: what they return is open at every call,
\* and the system they act on is not looked at.
NoEnv ==
    /\ NothingApart
    /\ world = {}
    /\ budget = <<>>
    /\ runLog = <<>>
    /\ behav = <<>>
    /\ snap = <<>>

Init ==
    /\ \E n \in 0..MaxSteps, onStart \in BOOLEAN, onDone \in BOOLEAN :
        NewRunnerOver(n, onStart, onDone)
    /\ NoEnv

----------------------------------------------------------------------------
\* func (r *Runner) RunAll() error

\* Mutant of CheckErrored: the probe's error is dropped (done, _ := step.Check()).
CheckErrored_Ignored(c) == FALSE

\* if err != nil, on what step.Check() returned
CheckErrored(c) == c.err # Nil

\* Mutant of CheckDone: the probe's answer is not consulted.
CheckDone_Never(c) == FALSE

\* if done
CheckDone(c) == c.done

\* Mutant of RunErrored: a failed Run() is not noticed and the loop goes on.
RunErrored_Never(e) == FALSE

\* if err != nil, on what step.Run() returned
RunErrored(e) == e # Nil

\* Mutant of CheckFailedResult: the failed probe is recorded as a skip.
CheckFailedResult_Skipped(s, err) == Result(Name(s), TRUE, err)

\* result := Result{StepName: step.Name(), Error: err}, after Check() failed
CheckFailedResult(s, err) == Result(Name(s), FALSE, err)

\* result := Result{StepName: step.Name(), Skipped: true}
SkippedResult(s) == Result(Name(s), TRUE, Nil)

\* Mutant of RunResult: the Error field is left unset.
RunResult_DropsError(s, err) == Result(Name(s), FALSE, Nil)

\* result := Result{StepName: step.Name(), Error: err}, after Run()
RunResult(s, err) == Result(Name(s), FALSE, err)

\* Mutant of RunAllBegin: a re-invoked RunAll resumes at the step that failed.
RunAllBegin_Resumes ==
    /\ pc = "idle"
    /\ runs < MaxRunAll
    /\ runs = 0 \/ (runs + 1) * Len(Steps) <= MaxResults
    /\ pc' = "loop"
    /\ idx' = IF Results # <<>> /\ Results[Len(Results)].Error # Nil
              THEN Len(Results) - base
              ELSE 1
    /\ chk' = [done |-> FALSE, err |-> Nil]
    /\ runErr' = Nil
    /\ ret' = NoReturn
    /\ trace' = <<>>
    /\ last' = "RunAll"
    /\ runs' = runs + 1
    /\ base' = Len(Results)
    /\ rbIndex' = 0
    /\ rbI' = 0
    /\ rbErrors' = <<>>
    /\ UNCHANGED <<Steps, Results, OnStart, OnDone>>

\* Mutant of RunAllBegin: RunAll empties Results before it starts.
RunAllBegin_ResetsResults ==
    /\ pc = "idle"
    /\ runs < MaxRunAll
    /\ runs = 0 \/ (runs + 1) * Len(Steps) <= MaxResults
    /\ pc' = "loop"
    /\ idx' = 1
    /\ chk' = [done |-> FALSE, err |-> Nil]
    /\ runErr' = Nil
    /\ ret' = NoReturn
    /\ trace' = <<>>
    /\ last' = "RunAll"
    /\ runs' = runs + 1
    /\ Results' = <<>>
    /\ base' = 0
    /\ rbIndex' = 0
    /\ rbI' = 0
    /\ rbErrors' = <<>>
    /\ UNCHANGED <<Steps, OnStart, OnDone>>

\* The caller invokes r.RunAll(): the range loop starts at the first step.
RunAllBegin ==
    /\ pc = "idle"
    /\ runs < MaxRunAll
    /\ runs = 0 \/ (runs + 1) * Len(Steps) <= MaxResults
    /\ pc' = "loop"
    /\ idx' = 1
    /\ chk' = [done |-> FALSE, err |-> Nil]
    /\ runErr' = Nil
    /\ ret' = NoReturn
    /\ trace' = <<>>
    /\ last' = "RunAll"
    /\ runs' = runs + 1
    /\ base' = Len(Results)
    \* the locals and the result of an earlier RollbackFrom are gone
    /\ rbIndex' = 0
    /\ rbI' = 0
    /\ rbErrors' = <<>>
    /\ UNCHANGED <<Steps, Results, OnStart, OnDone>>

\* Mutant of LoopNext: a step is probed only when there is an OnStart observer.
LoopNext_NeedsObserver ==
    /\ pc = "loop"
    /\ idx <= Len(Steps)
    /\ IF OnStart
       THEN /\ trace' = Append(trace, Call("OnStart", Steps[idx], FALSE, Nil))
            /\ pc' = "check"
            /\ idx' = idx
       ELSE /\ trace' = trace
            /\ pc' = "loop"
            /\ idx' = idx + 1
    /\ UNCHANGED <<Steps, Results, OnStart, OnDone, chk, runErr, ret, rbVars, last, runs, base>>

\* for _, step := range r.Steps { if r.OnStart != nil { r.OnStart(step) } ...
LoopNext ==
    /\ pc = "loop"
    /\ idx <= Len(Steps)
    /\ trace' = trace \o CallIf(OnStart, Call("OnStart", Steps[idx], FALSE, Nil))
    /\ pc' = "check"
    /\ UNCHANGED <<Steps, Results, OnStart, OnDone, runVars, ret, rbVars, last, runs, base>>

\* The range is exhausted: return nil.
LoopExit ==
    /\ pc = "loop"
    /\ idx > Len(Steps)
    /\ ret' = NilReturn
    /\ pc' = "idle"
    /\ UNCHANGED <<Steps, Results, OnStart, OnDone, runVars, rbVars, trace, last, runs, base>>

\* What a step's Check() may return: (done, nil) or (_, err) with err non-nil.
CheckOutcomes ==
    [done : BOOLEAN, err : {Nil}] \cup [done : {FALSE}, err : CheckErrs]

\* done, err := step.Check()
DoCheck ==
    /\ pc = "check"
    /\ \E o \in CheckOutcomes :
        /\ chk' = o
        /\ trace' = Append(trace, Call("Check", Steps[idx], o.done, o.err))
    /\ pc' = "checked"
    /\ UNCHANGED <<Steps, Results, OnStart, OnDone, idx, runErr, ret, rbVars, last, runs, base>>

\* Mutant of CheckFailed: the observer is not told of a failed probe.
CheckFailed_NoOnDone ==
    /\ pc = "checked"
    /\ CheckErrored(chk)
    /\ Results' = Append(Results, CheckFailedResult(Steps[idx], chk.err))
    /\ ret' = Errorf("check failed for", Name(Steps[idx]), chk.err)
    /\ pc' = "idle"
    /\ UNCHANGED <<Steps, OnStart, OnDone, runVars, rbVars, trace, last, runs, base>>

\* Mutant of CheckFailed: `continue` in place of `return`.
CheckFailed_Continues ==
    /\ pc = "checked"
    /\ CheckErrored(chk)
    /\ Results' = Append(Results, CheckFailedResult(Steps[idx], chk.err))
    /\ trace' = trace \o CallIf(OnDone,
                    [Call("OnDone", Steps[idx], FALSE, chk.err) EXCEPT !.len = Len(Results')])
    /\ idx' = idx + 1
    /\ pc' = "loop"
    /\ UNCHANGED <<Steps, OnStart, OnDone, chk, runErr, ret, rbVars, last, runs, base>>

\* Mutant of CheckFailed: the `return` is missing, so control falls through to
\* `if done` (false) and on to step.Run().
CheckFailed_FallsThrough ==
    /\ pc = "checked"
    /\ CheckErrored(chk)
    /\ Results' = Append(Results, CheckFailedResult(Steps[idx], chk.err))
    /\ \E e \in {Nil} \cup RunErrs :
        /\ runErr' = e
        /\ trace' = trace
                    \o CallIf(OnDone,
                        [Call("OnDone", Steps[idx], FALSE, chk.err) EXCEPT !.len = Len(Results')])
                    \o <<[Call("Run", Steps[idx], FALSE, e) EXCEPT !.len = Len(Results')]>>
    /\ pc' = "ran"
    /\ UNCHANGED <<Steps, OnStart, OnDone, idx, chk, ret, rbVars, last, runs, base>>

\* if err != nil { append Result{StepName, Error: err}; OnDone(step, false, err);
\*                 return fmt.Errorf("check failed for %s: %w", ...) }
CheckFailed ==
    /\ pc = "checked"
    /\ CheckErrored(chk)
    /\ Results' = Append(Results, CheckFailedResult(Steps[idx], chk.err))
    /\ trace' = trace \o CallIf(OnDone,
                    [Call("OnDone", Steps[idx], FALSE, chk.err) EXCEPT !.len = Len(Results')])
    /\ ret' = Errorf("check failed for", Name(Steps[idx]), chk.err)
    /\ pc' = "idle"
    /\ UNCHANGED <<Steps, OnStart, OnDone, runVars, rbVars, last, runs, base>>

\* Mutant of Skip: `return nil` in place of `continue`.
Skip_Returns ==
    /\ pc = "checked"
    /\ ~CheckErrored(chk)
    /\ CheckDone(chk)
    /\ Results' = Append(Results, SkippedResult(Steps[idx]))
    /\ trace' = trace \o CallIf(OnDone,
                    [Call("OnDone", Steps[idx], TRUE, Nil) EXCEPT !.len = Len(Results')])
    /\ ret' = NilReturn
    /\ pc' = "idle"
    /\ UNCHANGED <<Steps, OnStart, OnDone, runVars, rbVars, last, runs, base>>

\* Mutant of Skip: a step that is already done ends RunAll with an error.
Skip_Fails ==
    /\ pc = "checked"
    /\ ~CheckErrored(chk)
    /\ CheckDone(chk)
    /\ Results' = Append(Results, SkippedResult(Steps[idx]))
    /\ trace' = trace \o CallIf(OnDone,
                    [Call("OnDone", Steps[idx], TRUE, Nil) EXCEPT !.len = Len(Results')])
    /\ ret' = Errorf("step already done", Name(Steps[idx]), Nil)
    /\ pc' = "idle"
    /\ UNCHANGED <<Steps, OnStart, OnDone, runVars, rbVars, last, runs, base>>

\* if done { append Result{StepName, Skipped: true}; OnDone(step, true, nil); continue }
Skip ==
    /\ pc = "checked"
    /\ ~CheckErrored(chk)
    /\ CheckDone(chk)
    /\ Results' = Append(Results, SkippedResult(Steps[idx]))
    /\ trace' = trace \o CallIf(OnDone,
                    [Call("OnDone", Steps[idx], TRUE, Nil) EXCEPT !.len = Len(Results')])
    /\ idx' = idx + 1
    /\ pc' = "loop"
    /\ UNCHANGED <<Steps, OnStart, OnDone, chk, runErr, ret, rbVars, last, runs, base>>

\* err = step.Run()
DoRun ==
    /\ pc = "checked"
    /\ ~CheckErrored(chk)
    /\ ~CheckDone(chk)
    /\ \E e \in {Nil} \cup RunErrs :
        /\ runErr' = e
        /\ trace' = Append(trace, Call("Run", Steps[idx], FALSE, e))
    /\ pc' = "ran"
    /\ UNCHANGED <<Steps, Results, OnStart, OnDone, idx, chk, ret, rbVars, last, runs, base>>

\* Mutant of RecordRun: a failed Run() is undone on the spot by step.Rollback().
RecordRun_RollsBack ==
    /\ pc = "ran"
    /\ Results' = Append(Results, RunResult(Steps[idx], runErr))
    /\ IF RunErrored(runErr)
       THEN /\ \E e \in {Nil} \cup RollbackErrs :
                trace' = trace
                    \o CallIf(OnDone,
                        [Call("OnDone", Steps[idx], FALSE, runErr) EXCEPT !.len = Len(Results')])
                    \o <<[Call("Rollback", Steps[idx], FALSE, e) EXCEPT !.len = Len(Results')]>>
            /\ ret' = Errorf("step failed", Name(Steps[idx]), runErr)
            /\ pc' = "idle"
            /\ idx' = idx
       ELSE /\ trace' = trace \o CallIf(OnDone,
                    [Call("OnDone", Steps[idx], FALSE, runErr) EXCEPT !.len = Len(Results')])
            /\ ret' = ret
            /\ pc' = "loop"
            /\ idx' = idx + 1
    /\ UNCHANGED <<Steps, OnStart, OnDone, chk, runErr, rbVars, last, runs, base>>

\* Mutant of RecordRun: a failed Run() is tried once more before giving up.
RecordRun_Retries ==
    /\ pc = "ran"
    /\ IF RunErrored(runErr) /\ Cardinality({p \in 1..Len(trace) :
                                    trace[p].op = "Run" /\ trace[p].step = Steps[idx]}) < 2
       THEN /\ pc' = "check"
            /\ UNCHANGED <<Results, trace, ret, idx>>
       ELSE /\ Results' = Append(Results, RunResult(Steps[idx], runErr))
            /\ trace' = trace \o CallIf(OnDone,
                    [Call("OnDone", Steps[idx], FALSE, runErr) EXCEPT !.len = Len(Results')])
            /\ IF RunErrored(runErr)
               THEN /\ ret' = Errorf("step failed", Name(Steps[idx]), runErr)
                    /\ pc' = "idle"
                    /\ idx' = idx
               ELSE /\ ret' = ret
                    /\ pc' = "loop"
                    /\ idx' = idx + 1
    /\ UNCHANGED <<Steps, OnStart, OnDone, chk, runErr, rbVars, last, runs, base>>

\* append Result{StepName, Error: err}; OnDone(step, false, err);
\* if err != nil { return fmt.Errorf("step %s failed: %w", ...) }
RecordRun ==
    /\ pc = "ran"
    /\ Results' = Append(Results, RunResult(Steps[idx], runErr))
    /\ trace' = trace \o CallIf(OnDone,
                    [Call("OnDone", Steps[idx], FALSE, runErr) EXCEPT !.len = Len(Results')])
    /\ IF RunErrored(runErr)
       THEN /\ ret' = Errorf("step failed", Name(Steps[idx]), runErr)
            /\ pc' = "idle"
            /\ idx' = idx
       ELSE /\ ret' = ret
            /\ pc' = "loop"
            /\ idx' = idx + 1
    /\ UNCHANGED <<Steps, OnStart, OnDone, chk, runErr, rbVars, last, runs, base>>

RunAll ==
    \/ RunAllBegin
    \/ LoopNext
    \/ LoopExit
    \/ DoCheck
    \/ CheckFailed
    \/ Skip
    \/ DoRun
    \/ RecordRun

----------------------------------------------------------------------------
\* func (r *Runner) RollbackFrom(index int) []error

\* Mutant of RollbackLoopCond: the loop stops before the first step.
RollbackLoopCond_StopsAtOne(i) == i > 0

\* for i := index; i >= 0; i--
RollbackLoopCond(i) == i >= 0

\* Mutant of InSteps: only steps RunAll recorded as run are rolled back.
InSteps_OnlyAttempted(i) ==
    /\ i < Len(Steps)
    /\ i < Len(Results)
    /\ ~Results[i + 1].Skipped

\* if i < len(r.Steps)
InSteps(i) == i < Len(Steps)

\* Mutant of Collect: the error replaces the ones collected before.
Collect_KeepsLast(errors, s, e) ==
    IF e # Nil THEN <<Errorf("rollback", Name(s), e)>> ELSE errors

\* if err := r.Steps[i].Rollback(); err != nil { errors = append(errors, fmt.Errorf(...)) }
Collect(errors, s, e) ==
    IF e # Nil THEN Append(errors, Errorf("rollback", Name(s), e)) ELSE errors

\* Arguments the caller may pass: in range, below and above it.
Indexes == -2 .. Len(Steps) + 1

\* var errors []error; for i := index; ...
RollbackFromBegin ==
    /\ pc = "idle"
    /\ \E index \in Indexes :
        /\ rbIndex' = index
        /\ rbI' = index
    /\ rbErrors' = <<>>
    /\ trace' = <<>>
    /\ last' = "RollbackFrom"
    /\ pc' = "rollback"
    \* the locals of an earlier RunAll are gone
    /\ idx' = 0
    /\ chk' = [done |-> FALSE, err |-> Nil]
    /\ runErr' = Nil
    /\ UNCHANGED <<Steps, Results, OnStart, OnDone, ret, runs, base>>

\* Mutant of RollbackIter: a Rollback() error is also stored in the last Result.
RollbackIter_OverwritesError ==
    /\ pc = "rollback"
    /\ RollbackLoopCond(rbI)
    /\ IF InSteps(rbI)
       THEN \E e \in {Nil} \cup RollbackErrs :
               /\ trace' = Append(trace, Call("Rollback", Steps[rbI + 1], FALSE, e))
               /\ rbErrors' = Collect(rbErrors, Steps[rbI + 1], e)
               /\ Results' = IF e # Nil /\ Results # <<>>
                             THEN [Results EXCEPT ![Len(Results)].Error = e]
                             ELSE Results
       ELSE UNCHANGED <<trace, rbErrors, Results>>
    /\ rbI' = rbI - 1
    /\ UNCHANGED <<Steps, OnStart, OnDone, pc, runVars, ret, rbIndex, last, runs, base>>

\* Mutant of RollbackIter: the loop is left at the first Rollback() error.
RollbackIter_StopsOnError ==
    /\ pc = "rollback"
    /\ RollbackLoopCond(rbI)
    /\ IF InSteps(rbI)
       THEN \E e \in {Nil} \cup RollbackErrs :
               /\ trace' = Append(trace, Call("Rollback", Steps[rbI + 1], FALSE, e))
               /\ rbErrors' = Collect(rbErrors, Steps[rbI + 1], e)
               /\ rbI' = IF e # Nil THEN -1 ELSE rbI - 1
       ELSE /\ rbI' = rbI - 1
            /\ UNCHANGED <<trace, rbErrors>>
    /\ UNCHANGED <<Steps, Results, OnStart, OnDone, pc, runVars, ret, rbIndex, last, runs, base>>

\* i >= 0: if i < len(r.Steps) { if err := r.Steps[i].Rollback(); err != nil
\*           { errors = append(errors, fmt.Errorf("rollback %s: %w", ...)) } }; i--
RollbackIter ==
    /\ pc = "rollback"
    /\ RollbackLoopCond(rbI)
    /\ IF InSteps(rbI)
       THEN \E e \in {Nil} \cup RollbackErrs :
               /\ trace' = Append(trace, Call("Rollback", Steps[rbI + 1], FALSE, e))
               /\ rbErrors' = Collect(rbErrors, Steps[rbI + 1], e)
       ELSE UNCHANGED <<trace, rbErrors>>
    /\ rbI' = rbI - 1
    /\ UNCHANGED <<Steps, Results, OnStart, OnDone, pc, runVars, ret, rbIndex, last, runs, base>>

\* i < 0: return errors
RollbackReturn ==
    /\ pc = "rollback"
    /\ ~RollbackLoopCond(rbI)
    /\ pc' = "idle"
    /\ UNCHANGED <<Steps, Results, OnStart, OnDone, runVars, ret, rbVars, trace, last, runs, base>>

RollbackFrom ==
    \/ RollbackFromBegin
    \/ RollbackIter
    \/ RollbackReturn

----------------------------------------------------------------------------
\* The caller invokes the two methods in any order, any number of times.
Next ==
    \/ RunAllBegin /\ UNCHANGED envVars
    \/ LoopNext /\ UNCHANGED envVars
    \/ LoopExit /\ UNCHANGED envVars
    \/ DoCheck /\ UNCHANGED envVars
    \/ CheckFailed /\ UNCHANGED envVars
    \/ Skip /\ UNCHANGED envVars
    \/ DoRun /\ UNCHANGED envVars
    \/ RecordRun /\ UNCHANGED envVars
    \/ RollbackFromBegin /\ UNCHANGED envVars
    \/ RollbackIter /\ UNCHANGED envVars
    \/ RollbackReturn /\ UNCHANGED envVars

Spec == Init /\ [][Next]_vars

----------------------------------------------------------------------------
\* Vocabulary of the properties

N == Len(Steps)

\* Position (1-based) of step s in Steps.
PosOf(s) == CHOOSE i \in 1..Len(Steps) : Steps[i] = s

\* RunAll has returned to its caller and nothing was invoked since.
Returned == pc = "idle" /\ last = "RunAll"

\* RollbackFrom has returned to its caller and nothing was invoked since.
RolledBack == pc = "idle" /\ last = "RollbackFrom"

\* The value RunAll returned is a non-nil error.
IsError(r) == r # NilReturn /\ r # NoReturn

\* Positions of the trace holding a call of op.
At(op) == {p \in 1..Len(trace) : trace[p].op = op}

\* Positions of the trace holding a call of op on step s.
AtOn(op, s) == {p \in At(op) : trace[p].step = s}

\* Positions of the Check() and Run() calls that returned a non-nil error.
Failures == {p \in At("Check") \cup At("Run") : trace[p].err # Nil}

FirstFailure == CHOOSE p \in Failures : \A q \in Failures : p <= q

\* The call OnDone(s, skipped, err), made when Results had n entries.
DoneCall(s, skipped, err, n) ==
    [op |-> "OnDone", step |-> s, flag |-> skipped, err |-> err, len |-> n]

\* The Results the RunAll invocation in progress (or the last one) appended.
Appended == SubSeq(Results, base + 1, Len(Results))

----------------------------------------------------------------------------
\* C1 (ordering): on a fresh Runner, when RunAll has returned and step k is
\* the first step whose Check() or Run() returned a non-nil error, Results
\* holds exactly k entries, the first k-1 with a nil Error and the k-th with
\* that error, and no Check() or Run() was called on a step after the k-th.
C1_Ordering ==
    (Returned /\ runs = 1 /\ Failures # {}) =>
        LET k == PosOf(trace[FirstFailure].step)
            err == trace[FirstFailure].err
        IN  /\ Len(Results) = k
            /\ \A i \in 1..(k - 1) : Results[i].Error = Nil
            /\ Results[k].Error = err
            /\ Results[k].StepName = Name(Steps[k])
            /\ \A p \in At("Check") \cup At("Run") : PosOf(trace[p].step) <= k

\* A run over three steps that stopped at the second: the first was skipped,
\* the second's Run() failed.
C1_Witness ==
    /\ Returned /\ runs = 1 /\ N = 3
    /\ Failures # {}
    /\ trace[FirstFailure].op = "Run"
    /\ trace[FirstFailure].step = Steps[2]
    /\ Len(Results) = 2
    /\ Results[1].Skipped

\* C2 as claimed: in every reachable state Results is a prefix of Steps
\* (no longer than Steps, the i-th entry named after Steps[i]) and only its
\* last entry may carry an error.
C2_ResultsPrefixOfSteps ==
    /\ Len(Results) <= Len(Steps)
    /\ \A i \in 1..Len(Results) : Results[i].StepName = Name(Steps[i])
    /\ \A i \in 1..(Len(Results) - 1) : Results[i].Error = Nil

\* C2 as amended: in every reachable state the Results appended by one
\* RunAll invocation are a prefix of Steps (no more of them than Steps, the
\* i-th named after Steps[i]) and only the last of them may carry an error;
\* on a Runner on which RunAll was invoked at most once they are all of Results.
C2_AppendedPrefixOfSteps ==
    /\ base <= Len(Results)
    /\ Len(Appended) <= Len(Steps)
    /\ \A i \in 1..Len(Appended) : Appended[i].StepName = Name(Steps[i])
    /\ \A i \in 1..(Len(Appended) - 1) : Appended[i].Error = Nil
    /\ runs <= 1 => Appended = Results

\* The second invocation on one Runner has appended its own prefix after the
\* three Results of the first.
C2_Witness ==
    /\ Returned /\ runs = 2 /\ N = 3
    /\ base = 3
    /\ Len(Results) = 5
    /\ Results[5].Error # Nil

\* C3 (probe-error abort): once a step's Check() has returned a non-nil
\* error, Run() is never called on that step and nothing is called on a later
\* step: the runner appends Result{name, Skipped=false, err}, calls
\* OnDone(step, false, err) if OnDone is set, and returns a non-nil error.
C3_ProbeErrorAbort ==
    last = "RunAll" =>
        \A p \in At("Check") :
            trace[p].err # Nil =>
                LET s == trace[p].step
                    k == PosOf(trace[p].step)
                IN  /\ AtOn("Run", s) = {}
                    /\ \A q \in (p + 1)..Len(trace) :
                           /\ q = p + 1
                           /\ OnDone
                           /\ trace[q] = DoneCall(s, FALSE, trace[p].err, base + k)
                    /\ pc \in {"checked", "idle"}
                    /\ pc = "checked" => Len(trace) = p /\ Len(Results) = base + k - 1
                    /\ pc = "idle" =>
                           /\ Len(Results) = base + k
                           /\ Results[base + k] = Result(Name(s), FALSE, trace[p].err)
                           /\ OnDone => Len(trace) = p + 1
                           /\ IsError(ret)

\* The second of three steps failed its probe; OnDone was told and RunAll returned.
C3_Witness ==
    /\ Returned /\ N = 3 /\ OnDone
    /\ \E p \in AtOn("Check", Steps[2]) :
           /\ trace[p].err # Nil
           /\ Len(trace) = p + 1
           /\ trace[p + 1].op = "OnDone"
    /\ IsError(ret)

\* C4 (run): once a step's Check() has returned (false, nil), Run() is called
\* on it, once; the runner then appends Result{name, Skipped=false, Error=err}
\* with err what Run() returned, calls OnDone(step, false, err) if OnDone is
\* set, and when err is non-nil returns a non-nil error with no later step
\* attempted.
C4_RunAndRecord ==
    last = "RunAll" =>
        \A p \in At("Check") :
            (trace[p].err = Nil /\ ~trace[p].flag) =>
                LET s == trace[p].step
                    k == PosOf(trace[p].step)
                IN  \/ pc = "checked" /\ Len(trace) = p /\ AtOn("Run", s) = {}
                    \/ /\ AtOn("Run", s) = {p + 1}
                       /\ \/ pc = "ran" /\ Len(trace) = p + 1 /\ Len(Results) = base + k - 1
                          \/ /\ pc # "ran" \/ Len(trace) > p + 1
                             /\ Len(Results) >= base + k
                             /\ Results[base + k] = Result(Name(s), FALSE, trace[p + 1].err)
                             /\ OnDone =>
                                    /\ Len(trace) >= p + 2
                                    /\ trace[p + 2] = DoneCall(s, FALSE, trace[p + 1].err, base + k)
                             /\ trace[p + 1].err # Nil =>
                                    /\ pc = "idle"
                                    /\ IsError(ret)
                                    /\ Len(Results) = base + k
                                    /\ Len(trace) = p + 1 + (IF OnDone THEN 1 ELSE 0)
                             /\ trace[p + 1].err = Nil =>
                                    \/ pc # "idle"
                                    \/ k = N /\ ret = NilReturn
                                    \/ k < N /\ At("Check") \cap {q \in 1..Len(trace) : q > p} # {}

\* Of three steps the first ran and succeeded, the second ran and failed:
\* both are recorded, OnDone was told of the failure and RunAll returned.
C4_Witness ==
    /\ Returned /\ N = 3 /\ OnDone /\ base = 0
    /\ Len(Results) = 2
    /\ Results[1] = Result(Name(Steps[1]), FALSE, Nil)
    /\ Results[2].Error \in RunErrs
    /\ AtOn("Run", Steps[1]) # {} /\ AtOn("Run", Steps[2]) # {}
    /\ trace[Len(trace)] = DoneCall(Steps[2], FALSE, Results[2].Error, 2)

\* C5 (skip): once a step's Check() has returned (true, nil), Run() is never
\* called on it; the runner appends Result{name, Skipped=true, Error=nil},
\* calls OnDone(step, true, nil) if OnDone is set and goes on with the next
\* step.  A RunAll in which every Check() returned (true, nil) calls no Run()
\* at all, probes every step and returns nil.
C5_SkipSemantics ==
    last = "RunAll" =>
        /\ \A p \in At("Check") :
            (trace[p].err = Nil /\ trace[p].flag) =>
                LET s == trace[p].step
                    k == PosOf(trace[p].step)
                    after == p + (IF OnDone THEN 1 ELSE 0)
                IN  /\ AtOn("Run", s) = {}
                    /\ \/ pc = "checked" /\ Len(trace) = p /\ Len(Results) = base + k - 1
                       \/ /\ pc # "checked" \/ Len(trace) > p
                          /\ Len(Results) >= base + k
                          /\ Results[base + k] = Result(Name(s), TRUE, Nil)
                          /\ OnDone => trace[p + 1] = DoneCall(s, TRUE, Nil, base + k)
                          /\ Len(trace) >= after
                          \* the next step, if any, is what is attempted next
                          /\ Len(trace) > after =>
                                 /\ k < N
                                 /\ trace[after + 1].step = Steps[k + 1]
                                 /\ trace[after + 1].op = (IF OnStart THEN "OnStart" ELSE "Check")
                          /\ (pc = "idle" /\ k < N) => Len(trace) > after
                          /\ (pc = "idle" /\ k = N) => ret = NilReturn
        /\ (Returned /\ \A p \in At("Check") : trace[p].flag /\ trace[p].err = Nil) =>
               /\ ret = NilReturn
               /\ At("Run") = {}
               /\ Cardinality(At("Check")) = N
               /\ Len(Results) = base + N

\* Three steps, each already done: three skipped Results, no Run(), nil returned.
C5_Witness ==
    /\ Returned /\ N = 3 /\ OnDone
    /\ Cardinality(At("Check")) = 3
    /\ \A p \in At("Check") : trace[p].flag
    /\ At("Run") = {}
    /\ \A i \in 1..3 : Results[i].Skipped
    /\ ret = NilReturn

\* C6 (return value): when RunAll has returned on a fresh Runner, it returned
\* nil exactly if each of the N steps has a Result with a nil Error, and it
\* returned with fewer than N Results only if the last Result carries an error.
C6_NilIffAllSucceeded ==
    (Returned /\ runs = 1) =>
        /\ ret # NoReturn
        /\ (ret = NilReturn) <=>
               /\ Len(Results) = N
               /\ \A i \in 1..N : Results[i].Error = Nil
        /\ Len(Results) < N =>
               /\ Len(Results) > 0
               /\ Results[Len(Results)].Error # Nil
               /\ IsError(ret)

\* A full run (one step skipped, two run) returned nil.
C6_Witness ==
    /\ Returned /\ runs = 1 /\ N = 3
    /\ ret = NilReturn
    /\ Len(Results) = 3
    /\ Results[1].Skipped /\ ~Results[2].Skipped /\ ~Results[3].Skipped

\* C7 (idempotency): in every RunAll invocation, the first or a later one,
\* Run() is called on a step only right after that step's Check() returned
\* (false, nil) in the same invocation; a step whose Check() returned true
\* has no Run() call in that invocation.
C7_RunOnlyAfterNotDone ==
    last = "RunAll" =>
        /\ \A p \in At("Run") :
               /\ p > 1
               /\ trace[p - 1].op = "Check"
               /\ trace[p - 1].step = trace[p].step
               /\ trace[p - 1].err = Nil
               /\ ~trace[p - 1].flag
        /\ \A p \in At("Check") : trace[p].flag => AtOn("Run", trace[p].step) = {}

\* Second invocation on the same Runner: the first step, whose Run() succeeded
\* in the first invocation, is now found done and is not run again.
C7_Witness ==
    /\ Returned /\ runs = 2 /\ N = 3 /\ base = 3
    /\ Results[1] = Result(Name(Steps[1]), FALSE, Nil)
    /\ Results[4] = Result(Name(Steps[1]), TRUE, Nil)
    /\ \E p \in AtOn("Check", Steps[1]) : trace[p].flag
    /\ AtOn("Run", Steps[1]) = {}
    /\ At("Run") # {}

\* The calls of a RollbackFrom that returned a non-nil error, in call order.
FailedRollbacks ==
    LET Failed(c) == c.err # Nil IN SelectSeq(trace, Failed)

\* C8 (rollback order): RollbackFrom(index) with 0 <= index < len(Steps) calls
\* Rollback() on Steps[index], Steps[index-1], ..., Steps[0] in that order,
\* once each and on nothing else, whatever the calls return: the p-th call is
\* on Steps[index - (p-1)], and index+1 calls have been made at the return.
C8_RollbackOrder ==
    (last = "RollbackFrom" /\ 0 <= rbIndex /\ rbIndex < N) =>
        /\ Len(trace) <= rbIndex + 1
        /\ \A p \in 1..Len(trace) :
               /\ trace[p].op = "Rollback"
               /\ trace[p].step = Steps[(rbIndex - (p - 1)) + 1]
        /\ pc = "rollback" => Len(trace) = rbIndex - rbI
        /\ pc = "idle" => Len(trace) = rbIndex + 1

\* RollbackFrom(2) over three steps: the Rollback() of step 1 failed and
\* step 0 was rolled back all the same.
C8_Witness ==
    /\ RolledBack /\ N = 3 /\ rbIndex = 2
    /\ Len(trace) = 3
    /\ trace[1].step = Steps[3] /\ trace[1].err = Nil
    /\ trace[2].step = Steps[2] /\ trace[2].err # Nil
    /\ trace[3].step = Steps[1] /\ trace[3].err = Nil

\* C9 (collected errors): the list RollbackFrom returns holds one error for
\* each Rollback() call that returned non-nil, in the order of the calls
\* (descending step position), each naming the step and wrapping the step's
\* own error; it is empty exactly when no Rollback() call failed.
C9_RollbackErrors ==
    RolledBack =>
        /\ Len(rbErrors) = Len(FailedRollbacks)
        /\ \A j \in 1..Len(rbErrors) :
               rbErrors[j] = Errorf("rollback", Name(FailedRollbacks[j].step), FailedRollbacks[j].err)
        /\ \A j \in 1..(Len(rbErrors) - 1) :
               PosOf(FailedRollbacks[j].step) > PosOf(FailedRollbacks[j + 1].step)
        /\ (rbErrors = <<>>) <=> (\A p \in 1..Len(trace) : trace[p].err = Nil)

\* RollbackFrom(2): the rollbacks of steps 2 and 0 failed, that of step 1 did
\* not; two errors were returned, step 2's first.
C9_Witness ==
    /\ RolledBack /\ N = 3 /\ rbIndex = 2
    /\ Len(trace) = 3
    /\ trace[1].err # Nil /\ trace[2].err = Nil /\ trace[3].err # Nil
    /\ Len(rbErrors) = 2
    /\ rbErrors[1].name = Name(Steps[3])
    /\ rbErrors[2].name = Name(Steps[1])

\* C10 (rollback is independent of Results): when RollbackFrom(index) with
\* 0 <= index < len(Steps) has returned, every step in positions 0..index had
\* Rollback() called on it exactly once, whether RunAll recorded it as
\* skipped, succeeded or failed, did not reach it, or was never invoked.
C10_RollbackIgnoresResults ==
    (RolledBack /\ 0 <= rbIndex /\ rbIndex < N) =>
        \A j \in 0..rbIndex :
            /\ Cardinality(AtOn("Rollback", Steps[j + 1])) = 1
            /\ \A i \in 0..(j - 1) :
                   \A p \in AtOn("Rollback", Steps[j + 1]), q \in AtOn("Rollback", Steps[i + 1]) :
                       p < q

\* After a run over [A skipped, B succeeded, C failed in Run()], RollbackFrom(2)
\* has called Rollback() on C, then B, then A.
C10_Witness ==
    /\ RolledBack /\ N = 3 /\ rbIndex = 2 /\ runs = 1
    /\ Len(Results) = 3
    /\ Results[1] = Result(Name(Steps[1]), TRUE, Nil)
    /\ Results[2] = Result(Name(Steps[2]), FALSE, Nil)
    /\ Results[3] = Result(Name(Steps[3]), FALSE, "disk full")
    /\ ret = Errorf("step failed", Name(Steps[3]), "disk full")
    /\ Len(trace) = 3
    /\ trace[1].step = Steps[3] /\ trace[2].step = Steps[2] /\ trace[3].step = Steps[1]

\* RollbackFrom(2) on a Runner whose RunAll was never invoked.
C10_WitnessNeverRun ==
    /\ RolledBack /\ N = 3 /\ rbIndex = 2 /\ runs = 0
    /\ Results = <<>>
    /\ Len(trace) = 3

----------------------------------------------------------------------------
\* errors.Unwrap: the error an error made by Errorf wraps.
Unwrap(e) == e.wraps

\* C11 (rollback frame): no step of RollbackFrom, whatever the Rollback()
\* calls return, changes the Runner's Results, Steps or callbacks, nor the
\* error the failed RunAll returned.
C11_RollbackFrame ==
    [][(pc = "rollback" \/ pc' = "rollback") =>
          /\ Results' = Results
          /\ Steps' = Steps
          /\ OnStart' = OnStart
          /\ OnDone' = OnDone
          /\ ret' = ret]_vars

\* After a run that failed at its third step, RollbackFrom(2) has returned
\* rollback errors; the failed Result and the returned error are as they were.
C11_Witness ==
    /\ RolledBack /\ N = 3 /\ rbIndex = 2
    /\ rbErrors # <<>>
    /\ Len(Results) = 3
    /\ Results[3].Error \in RunErrs
    /\ ret = Errorf("step failed", Name(Steps[3]), Results[3].Error)

\* C12 (returned error): a non-nil error returned by RunAll names the step of
\* the last Result, which is the first step whose Check() or Run() failed, and
\* wraps the very error that call returned: "check failed for" after a
\* Check() error, "step failed" after a Run() error.
C12_ReturnedErrorWraps ==
    (Returned /\ IsError(ret)) =>
        /\ Failures # {}
        /\ Len(Results) > base
        /\ ret.name = Results[Len(Results)].StepName
        /\ ret.name = Name(trace[FirstFailure].step)
        /\ Unwrap(ret) = trace[FirstFailure].err
        /\ Unwrap(ret) = Results[Len(Results)].Error
        /\ Unwrap(ret) # Nil
        /\ ret.msg = (IF trace[FirstFailure].op = "Check"
                      THEN "check failed for" ELSE "step failed")

\* RunAll returned the error of the second step's probe.
C12_Witness ==
    /\ Returned /\ N = 3
    /\ ret = Errorf("check failed for", Name(Steps[2]), "probe failed")
    /\ Len(Results) = base + 2

\* C13 (order, no retries): in one RunAll invocation Check() and Run() are
\* each called at most once per step, Run() only right after the same step's
\* Check() returned (false, nil), and the calls follow the order of Steps:
\* no call on a step comes after a call on a later step.
C13_InputOrderNoRetry ==
    last = "RunAll" =>
        /\ \A i \in 1..N :
               /\ Cardinality(AtOn("Check", Steps[i])) <= 1
               /\ Cardinality(AtOn("Run", Steps[i])) <= 1
        /\ \A p \in At("Run") :
               /\ p - 1 \in AtOn("Check", trace[p].step)
               /\ trace[p - 1].err = Nil
               /\ ~trace[p - 1].flag
        /\ \A p \in 1..Len(trace) : \A q \in 1..Len(trace) :
               p < q => PosOf(trace[p].step) <= PosOf(trace[q].step)
        /\ \A p \in At("Check") : PosOf(trace[p].step) <= idx

\* Three steps were probed in order; the second and the third were run, and
\* the third failed.
C13_Witness ==
    /\ Returned /\ N = 3 /\ ~OnStart /\ ~OnDone
    /\ Len(trace) = 5
    /\ trace[1].op = "Check" /\ trace[1].step = Steps[1]
    /\ trace[2].op = "Check" /\ trace[2].step = Steps[2]
    /\ trace[3].op = "Run" /\ trace[3].step = Steps[2]
    /\ trace[4].op = "Check" /\ trace[4].step = Steps[3]
    /\ trace[5].op = "Run" /\ trace[5].step = Steps[3] /\ trace[5].err # Nil

\* C15 (observers): in a RunAll invocation, with OnStart set, OnStart(step) is
\* called once per attempted step, right before its Check(); with OnDone set,
\* OnDone is called once per appended Result, after the append and the
\* step's own calls and before any call for a later step, with the Result's
\* Skipped and Error.  A nil observer is never called.  With both set, when
\* RunAll has returned the OnStart calls, the OnDone calls and the Results it
\* appended are equally many.
C15_ObserverCalls ==
    last = "RunAll" =>
        /\ ~OnStart => At("OnStart") = {}
        /\ ~OnDone => At("OnDone") = {}
        /\ OnStart =>
               /\ \A p \in At("Check") :
                      /\ p - 1 \in AtOn("OnStart", trace[p].step)
                      /\ Cardinality(AtOn("OnStart", trace[p].step)) = 1
               /\ \A p \in At("OnStart") :
                      \/ p = Len(trace) /\ pc = "check"
                      \/ p + 1 \in AtOn("Check", trace[p].step)
        /\ OnDone =>
               /\ \A k \in 1..Len(Appended) :
                      \E p \in At("OnDone") :
                          /\ AtOn("OnDone", Steps[k]) = {p}
                          /\ trace[p] = DoneCall(Steps[k], Appended[k].Skipped,
                                                 Appended[k].Error, base + k)
                          /\ \A q \in 1..Len(trace) :
                                 /\ (q < p) => PosOf(trace[q].step) <= k
                                 /\ (q > p) => PosOf(trace[q].step) > k
               /\ Cardinality(At("OnDone")) = Len(Appended)
        /\ (Returned /\ OnStart /\ OnDone) =>
               /\ Cardinality(At("OnStart")) = Len(Appended)
               /\ Cardinality(At("OnDone")) = Len(Appended)

\* Both observers set; a run over three steps stopped at the failing probe
\* of the third: three OnStart calls, three OnDone calls, three Results.
C15_Witness ==
    /\ Returned /\ N = 3 /\ OnStart /\ OnDone
    /\ Len(Appended) = 3
    /\ Appended[1].Skipped
    /\ Appended[3].Error \in CheckErrs
    /\ Cardinality(At("OnStart")) = 3
    /\ Cardinality(At("OnDone")) = 3
    /\ trace[Len(trace)] = DoneCall(Steps[3], FALSE, Appended[3].Error, base + 3)

\* The three outcomes a Result may record.
IsSkipped(r) == r.Skipped /\ r.Error = Nil
IsSucceeded(r) == ~r.Skipped /\ r.Error = Nil
IsFailed(r) == ~r.Skipped /\ r.Error # Nil

\* C16 (tri-state, immutable): every Result of Results is skipped
\* (Skipped, nil Error), succeeded (not Skipped, nil Error) or failed (not
\* Skipped, non-nil Error), never Skipped with a non-nil Error; and every
\* step of the program leaves the Results already appended as they are.
C16_ResultOutcomes ==
    /\ [](\A i \in 1..Len(Results) :
              /\ IsSkipped(Results[i]) \/ IsSucceeded(Results[i]) \/ IsFailed(Results[i])
              /\ ~(Results[i].Skipped /\ Results[i].Error # Nil))
    /\ [][/\ Len(Results') >= Len(Results)
          /\ \A i \in 1..Len(Results) : Results'[i] = Results[i]]_vars

\* One invocation recorded a Result of each kind.
C16_Witness ==
    /\ Returned /\ Len(Appended) = 3
    /\ IsSkipped(Appended[1])
    /\ IsSucceeded(Appended[2])
    /\ IsFailed(Appended[3])

\* C17 (rollback is the caller's decision): a RunAll invocation calls
\* Rollback() on no step, also when it returns an error; a RollbackFrom
\* invocation calls nothing but Rollback(): no Check(), Run(), OnStart or OnDone.
C17_NoImplicitRollback ==
    /\ last = "RunAll" => At("Rollback") = {}
    /\ last = "RollbackFrom" =>
           /\ At("Check") = {} /\ At("Run") = {}
           /\ At("OnStart") = {} /\ At("OnDone") = {}
    /\ (last = "RunAll" /\ pc = "idle") => rbErrors = <<>>

\* RunAll gave up on a failed Run() of the second step after the first step
\* had run: nothing was rolled back.
C17_Witness ==
    /\ Returned /\ N = 3 /\ IsError(ret)
    /\ Len(Appended) = 2
    /\ IsSucceeded(Appended[1])
    /\ Appended[2].Error \in RunErrs
    /\ At("Run") # {}
    /\ At("Rollback") = {}


----------------------------------------------------------------------------
\* Two Runners over the same steps, one after the other.  What every step's
\* Check() and Run() return is fixed in advance (behav), so that the second
\* Runner meets the same step behaviours as the first; only the callbacks may
\* differ.  snap keeps what the first Runner did.

\* What one step does: the result of its Check(), and of its Run() where the
\* Check() lets Run() be called.
Behaviours ==
    {b \in [check : CheckOutcomes, run : {Nil} \cup RunErrs] :
        (b.check.done \/ b.check.err # Nil) => b.run = Nil}

\* The Check() and Run() calls of the invocation, in call order.
IsStepCall(c) == c.op \in {"Check", "Run"}
StepCalls == SelectSeq(trace, IsStepCall)

InitObs ==
    /\ \E n \in 1..MaxSteps, onStart \in BOOLEAN, onDone \in BOOLEAN :
        /\ NewRunnerOver(n, onStart, onDone)
        /\ behav \in [1..n -> Behaviours]
    /\ NothingApart
    /\ world = {}
    /\ budget = <<>>
    /\ runLog = <<>>
    /\ snap = <<>>

\* The caller invokes RunAll once on each Runner.
RunAllOnce == RunAllBegin /\ runs = 0 /\ UNCHANGED envVars

\* done, err := step.Check(), of a step that behaves as fixed
ObsCheck == DoCheck /\ chk' = behav[Steps[idx]].check /\ UNCHANGED envVars

\* err = step.Run(), of a step that behaves as fixed
ObsRun == DoRun /\ runErr' = behav[Steps[idx]].run /\ UNCHANGED envVars

\* NewRunner(steps) once more over the steps of the present Runner, which is
\* dropped: the next state is that of NewRunner(Steps, onStart, onDone).
NewRunnerAgain(onStart, onDone) ==
    /\ Results' = <<>>
    /\ OnStart' = onStart
    /\ OnDone' = onDone
    /\ pc' = "idle"
    /\ idx' = 0
    /\ chk' = [done |-> FALSE, err |-> Nil]
    /\ runErr' = Nil
    /\ ret' = NoReturn
    /\ trace' = <<>>
    /\ last' = "NewRunner"
    /\ runs' = 0
    /\ base' = 0
    /\ UNCHANGED <<Steps, rbVars>>

\* After the first Runner's RunAll has returned, a second Runner is made over
\* the same steps, with callbacks of its own.
SecondRunner ==
    /\ Returned
    /\ snap = <<>>
    /\ snap' = [calls |-> StepCalls, Results |-> Results, ret |-> ret,
                OnStart |-> OnStart, OnDone |-> OnDone]
    /\ \E onStart \in BOOLEAN, onDone \in BOOLEAN : NewRunnerAgain(onStart, onDone)
    /\ UNCHANGED <<world, budget, runLog, behav, apartVars>>

NextObs ==
    \/ RunAllOnce
    \/ LoopNext /\ UNCHANGED envVars
    \/ LoopExit /\ UNCHANGED envVars
    \/ ObsCheck
    \/ CheckFailed /\ UNCHANGED envVars
    \/ Skip /\ UNCHANGED envVars
    \/ ObsRun
    \/ RecordRun /\ UNCHANGED envVars
    \/ SecondRunner

SpecObs == InitObs /\ [][NextObs]_vars

\* C14 (callbacks are observers): two Runners over steps that behave the same
\* make the same Check()/Run() calls in the same order, end with the same
\* Results and return the same error, whatever callbacks each has; in
\* particular when one has both callbacks set and the other has both nil.
C14_CallbacksDoNotSteer ==
    (snap # <<>> /\ Returned) =>
        /\ StepCalls = snap.calls
        /\ Results = snap.Results
        /\ ret = snap.ret

\* The first Runner had both callbacks, the second has none; one step was
\* skipped, one was run, and the last one failed.
C14_Witness ==
    /\ snap # <<>>
    /\ Returned
    /\ snap.OnStart /\ snap.OnDone
    /\ ~OnStart /\ ~OnDone
    /\ IsError(ret)
    /\ Len(Results) = 3
    /\ IsSkipped(Results[1])
    /\ IsSucceeded(Results[2])
    /\ Len(StepCalls) = 5


----------------------------------------------------------------------------
\* Steps with a goal.  Each step has a goal state in the system the steps act
\* on; world holds the steps whose goal state holds.  Check() probes the goal
\* and returns true once it holds, a successful Run() establishes it, and
\* nothing else changes the system.  A step's Run() fails at most as often as
\* its budget says.

\* Each step's Run() fails at most this many times.
MaxRunFailures == 1

\* What Check() of step s may return in the present system.
GoalCheck(s) ==
    IF s \in world
    THEN {[done |-> TRUE, err |-> Nil]}
    ELSE {[done |-> FALSE, err |-> Nil]} \cup [done : {FALSE}, err : CheckErrs]

InitWorld ==
    /\ \E n \in 1..MaxSteps :
        /\ NewRunnerOver(n, TRUE, TRUE)
        /\ world \in SUBSET (1..n)
        /\ budget \in [1..n -> 0..MaxRunFailures]
        /\ runLog = [s \in 1..n |-> <<>>]
    /\ NothingApart
    /\ behav = <<>>
    /\ snap = <<>>

\* done, err := step.Check(), of a step that probes its goal
WorldCheck ==
    /\ DoCheck
    /\ chk' \in GoalCheck(Steps[idx])
    /\ UNCHANGED envVars

\* err = step.Run(), of a step that establishes its goal unless it fails
WorldRun ==
    /\ DoRun
    /\ runErr' # Nil => budget[Steps[idx]] > 0
    /\ budget' = IF runErr' # Nil
                 THEN [budget EXCEPT ![Steps[idx]] = @ - 1]
                 ELSE budget
    /\ world' = IF runErr' = Nil THEN world \cup {Steps[idx]} ELSE world
    /\ runLog' = [runLog EXCEPT ![Steps[idx]] =
                    Append(@, [ok |-> runErr' = Nil, held |-> Steps[idx] \in world])]
    /\ UNCHANGED <<behav, snap, apartVars>>

\* The command is run again: a new Runner over the same steps, with the
\* callbacks NewRunner installs, meets the system as the last run left it.
RunAgain ==
    /\ Returned
    /\ NewRunnerAgain(TRUE, TRUE)
    /\ UNCHANGED envVars

NextWorld ==
    \/ RunAllBegin /\ UNCHANGED envVars
    \/ LoopNext /\ UNCHANGED envVars
    \/ LoopExit /\ UNCHANGED envVars
    \/ WorldCheck
    \/ CheckFailed /\ UNCHANGED envVars
    \/ Skip /\ UNCHANGED envVars
    \/ WorldRun
    \/ RecordRun /\ UNCHANGED envVars
    \/ RunAgain

SpecWorld == InitWorld /\ [][NextWorld]_vars

\* How many of the Run() calls of step s, over all invocations, have failed.
FailedRuns(s) == Cardinality({p \in 1..Len(runLog[s]) : ~runLog[s][p].ok})

\* C18 (re-invocation re-probes and does only the remaining work): with steps
\* whose Check() returns true once their goal holds and whose successful Run()
\* establishes it, every RunAll invocation, a re-invocation after a failed run
\* included, calls Check() on the steps in list order starting from the first,
\* without leaving one out up to where it stops; Run() is called only on a
\* step whose goal does not hold at that moment; and no step has Run() called
\* after a Run() of it succeeded.
C18_RerunDoesRemainingWork ==
    /\ \A p \in At("Check") :
         \A j \in 1..(PosOf(trace[p].step) - 1) :
            \E q \in AtOn("Check", Steps[j]) : q < p
    /\ \A s \in 1..N : \A p \in 1..Len(runLog[s]) : ~runLog[s][p].held
    /\ \A s \in 1..N : \A p, q \in 1..Len(runLog[s]) :
         p < q => ~runLog[s][p].ok

\* An earlier invocation ran the first step and failed at the second; the
\* re-invocation on the same Runner has probed the first step again, skipped
\* it, and has run the second step, this time with success.
C18_Witness ==
    /\ runs = 2
    /\ Returned
    /\ base = 2
    /\ IsSucceeded(Results[1])
    /\ IsFailed(Results[2])
    /\ \E p \in AtOn("Check", Steps[1]) : trace[p].flag
    /\ AtOn("Run", Steps[1]) = {}
    /\ \E p \in AtOn("Run", Steps[2]) : trace[p].err = Nil
    /\ Len(runLog[1]) = 1
    /\ Len(runLog[2]) = 2


----------------------------------------------------------------------------
\* Re-running as the recovery path.  The steps are as in SpecWorld, and their
\* Check() never returns an error.  RunAll runs on the caller's thread, so an
\* invocation that has begun goes on to its return; and the caller, who is
\* told of a failure, invokes RunAll again, on the same Runner or by running
\* the command again.

\* done, err := step.Check(), of a step that probes its goal and never errors
RecoverCheck ==
    /\ DoCheck
    /\ chk' = [done |-> Steps[idx] \in world, err |-> Nil]
    /\ UNCHANGED envVars

NextRecover ==
    \/ RunAllBegin /\ UNCHANGED envVars
    \/ LoopNext /\ UNCHANGED envVars
    \/ LoopExit /\ UNCHANGED envVars
    \/ RecoverCheck
    \/ Skip /\ UNCHANGED envVars
    \/ WorldRun
    \/ RecordRun /\ UNCHANGED envVars
    \/ RunAgain

SpecRecover == InitWorld /\ [][NextRecover]_vars /\ WF_vars(NextRecover)

\* RunAll has returned nil, with one Result for each of the N steps, each
\* skipped or succeeded.
Recovered ==
    /\ Returned
    /\ ret = NilReturn
    /\ Len(Appended) = N
    /\ \A i \in 1..N : IsSkipped(Appended[i]) \/ IsSucceeded(Appended[i])

\* C19 (re-running recovers): with steps whose Check() never errors, whose
\* successful Run() makes their later Check() true and whose Run() fails only
\* finitely often, RunAll invoked again and again eventually returns nil with
\* all N steps skipped or succeeded; and every RunAll invocation that has
\* begun returns, having probed at most N steps and appended at most N Results.
C19_RerunRecovers ==
    /\ <>Recovered
    /\ [](pc # "idle" => <>(pc = "idle"))
    /\ [](Cardinality(At("Check")) <= N /\ Len(Appended) <= N)

\* Two invocations have failed, each at a step whose Run() could fail once,
\* and the third has returned nil: what the first two ran is skipped, the
\* rest succeeded.
C19_Witness ==
    /\ Recovered
    /\ N = 3
    /\ FailedRuns(1) = 1
    /\ FailedRuns(3) = 1
    /\ \E i \in 1..N : IsSkipped(Appended[i])
    /\ \E i \in 1..N : IsSucceeded(Appended[i])


----------------------------------------------------------------------------
\* `hive setup`: setupCmd builds the list of nine steps, makes a Runner over
\* it with NewRunner and invokes RunAll once.  world holds the steps whose goal
\* state holds on the machine:
\*   CloneStep          <dir>/.git exists
\*   ShellStep          an existing shell rc file holds the marker
\*   PrerequisitesStep  git, java, clojure, bb, docker and emacs are on the PATH
\*   CloneDepsStep      the Clojure dependencies are downloaded
\*   DoomSyncStep       the Doom Emacs packages are synced
\*   ChromaStep         the Chroma heartbeat answers 200
\*   OllamaStep         the Ollama tags endpoint answers 200
\*   EmacsDaemonStep    emacsclient reaches the daemon
\*   MCPStep            `claude mcp list` names emacs
\* Nothing but the steps' Run() changes the machine.

\* Mutant of SetupSteps: the dependencies are downloaded before the clone,
\* and the MCP server is registered before the daemon is started.
SetupSteps_DependentsFirst ==
    << CloneDepsStep, ShellStep, PrerequisitesStep, CloneStep, DoomSyncStep,
       ChromaStep, OllamaStep, MCPStep, EmacsDaemonStep >>

SetupSteps ==
    << CloneStep, ShellStep, PrerequisitesStep, CloneDepsStep, DoomSyncStep,
       ChromaStep, OllamaStep, EmacsDaemonStep, MCPStep >>

AllSetupSteps == {SetupSteps[i] : i \in 1..Len(SetupSteps)}

\* Mutant of AlwaysRun: DoomSyncStep.Check probes whether the packages are synced.
AlwaysRun_OnlyDeps == {CloneDepsStep}

\* CloneDepsStep.Check and DoomSyncStep.Check: `return false, nil`.
AlwaysRun == {CloneDepsStep, DoomSyncStep}

\* Mutant of SetupCheck: a probe that cannot be made (no Claude CLI, no HTTP
\* answer) is returned as an error.
SetupCheck_ProbeErrors(s) ==
    IF s \in AlwaysRun
    THEN [done |-> FALSE, err |-> Nil]
    ELSE IF s \in {ChromaStep, OllamaStep, MCPStep} /\ s \notin world
    THEN [done |-> FALSE, err |-> "probe failed"]
    ELSE [done |-> s \in world, err |-> Nil]

\* What Check() of setup step s returns on the present machine.  No setup
\* step's Check() returns an error: a probe that fails means not done.
SetupCheck(s) ==
    IF s \in AlwaysRun
    THEN [done |-> FALSE, err |-> Nil]
    ELSE [done |-> s \in world, err |-> Nil]

\* The machine after Run() of setup step s has returned err.  A Run() that
\* returns nil has established the goal, except PrerequisitesStep.Run, which
\* does not look at the result of its installers (brew install, the last
\* command of the install scripts) and may return nil with a binary missing.
AfterRun(s, err) ==
    IF err # Nil THEN {world}
    ELSE IF s = PrerequisitesStep THEN {world, world \cup {s}}
    ELSE {world \cup {s}}

InitSetup ==
    /\ NewRunner(SetupSteps, TRUE, TRUE)
    /\ world \in SUBSET AllSetupSteps
    /\ NothingApart
    /\ budget = <<>>
    /\ runLog = <<>>
    /\ behav = <<>>
    /\ snap = <<>>

\* done, err := step.Check(), of a setup step
SetupCheckStep ==
    /\ DoCheck
    /\ chk' = SetupCheck(Steps[idx])
    /\ UNCHANGED envVars

\* err = step.Run(), of a setup step
SetupRunStep ==
    /\ DoRun
    /\ world' \in AfterRun(Steps[idx], runErr')
    /\ UNCHANGED <<budget, runLog, behav, snap, apartVars>>

\* Mutant of SetupAgain: a run that failed has rolled back the steps it attempted.
SetupAgain_AfterRollback ==
    /\ Returned
    /\ snap' = [calls |-> StepCalls, Results |-> Results, ret |-> ret,
                OnStart |-> OnStart, OnDone |-> OnDone]
    /\ NewRunnerAgain(TRUE, TRUE)
    /\ world' = IF IsError(ret)
                THEN world \ {Steps[i] : i \in 1..Len(Results)}
                ELSE world
    /\ UNCHANGED <<budget, runLog, behav, apartVars>>

\* `hive setup` is run again on the machine as the last run left it; snap
\* keeps what the last run did.
SetupAgain ==
    /\ Returned
    /\ snap' = [calls |-> StepCalls, Results |-> Results, ret |-> ret,
                OnStart |-> OnStart, OnDone |-> OnDone]
    /\ NewRunnerAgain(TRUE, TRUE)
    /\ UNCHANGED <<world, budget, runLog, behav, apartVars>>

NextSetup ==
    \/ RunAllOnce
    \/ LoopNext /\ UNCHANGED envVars
    \/ LoopExit /\ UNCHANGED envVars
    \/ SetupCheckStep
    \/ Skip /\ UNCHANGED envVars
    \/ SetupRunStep
    \/ RecordRun /\ UNCHANGED envVars
    \/ SetupAgain

SpecSetup == InitSetup /\ [][NextSetup]_vars

\* The last `hive setup` ended with all nine steps skipped or succeeded.
LastRunCompleted ==
    /\ snap # <<>>
    /\ snap.ret = NilReturn
    /\ Len(snap.Results) = Len(SetupSteps)

\* C20 (`hive setup` is idempotent): in a run of `hive setup` that follows a
\* run in which all nine steps completed, with the machine unchanged in
\* between, no step's Run() is invoked, and when the run has returned every
\* one of the nine steps is reported as skipped.
C20_SecondSetupSkipsAll ==
    LastRunCompleted =>
        /\ At("Run") = {}
        /\ Returned =>
            /\ Len(Results) = Len(SetupSteps)
            /\ \A i \in 1..Len(Results) : IsSkipped(Results[i])


\* The step of the Result r, which holds its Name().
StepOf(r) == CHOOSE s \in AllSetupSteps : Name(s) = r.StepName

IsCheckCall(c) == c.op = "Check"
CheckCalls == SelectSeq(trace, IsCheckCall)

\* Step s was skipped or succeeded in this run before the call at place p of the trace.
DoneBefore(s, p) ==
    \E i \in 1..Len(Results) :
        /\ i <= trace[p].len
        /\ StepOf(Results[i]) = s
        /\ IsSkipped(Results[i]) \/ IsSucceeded(Results[i])

\* C22 (step dependencies): in a `hive setup` run the steps are attempted in
\* the order clone, shell, prerequisites, dependencies, doom sync, Chroma,
\* Ollama, Emacs daemon, MCP registration; Run() of the dependency-download
\* step is invoked only after the clone step was skipped or succeeded in this
\* run, and the MCP registration step is attempted only after the Emacs
\* daemon step was skipped or succeeded in this run.
C22_SetupOrder ==
    /\ \A k \in 1..Len(CheckCalls) :
         CheckCalls[k].step =
            << CloneStep, ShellStep, PrerequisitesStep, CloneDepsStep, DoomSyncStep,
               ChromaStep, OllamaStep, EmacsDaemonStep, MCPStep >>[k]
    /\ \A p \in AtOn("Run", CloneDepsStep) : DoneBefore(CloneStep, p)
    /\ \A p \in AtOn("OnStart", MCPStep) \cup AtOn("Check", MCPStep) :
         DoneBefore(EmacsDaemonStep, p)

\* A run in which the clone step and the Emacs daemon step were run with
\* success, and the dependency-download step and the MCP registration step
\* were run after them.
C22_Witness ==
    /\ Returned
    /\ ret = NilReturn
    /\ Len(Results) = Len(SetupSteps)
    /\ \E p \in AtOn("Run", CloneStep), q \in AtOn("Run", CloneDepsStep) : p < q
    /\ \E p \in AtOn("Run", EmacsDaemonStep), q \in AtOn("Run", MCPStep) : p < q


----------------------------------------------------------------------------
\* func checkEmacsMCPConnection() CheckResult  (package doctor)
\*
\* The function starts the external command in a goroutine of its own, which
\* sends the command's result on the unbuffered channel done, and waits in a
\* select for that send or for the timer.  doctor.RunAll calls it once in
\* every diagnosis, and `hive doctor` diagnoses again after a fix, so that the
\* goroutines of earlier calls may still be there.

\* time.After(5 * time.Second)
TimeoutSeconds == 5

\* checkEmacsMCPConnection is called at most this many times.
MaxConnChecks == 2

\* What cmd.Run() returns.
CmdErrs == {"exit status 1"}

\* The CheckResult returned: Status and Message.
NoResult == [Status |-> "none", Message |-> ""]
Connected == [Status |-> "OK", Message |-> "connected"]
ConnectionFailed == [Status |-> "Warning", Message |-> "connection failed"]
ConnectionTimeout == [Status |-> "Warning", Message |-> "connection timeout"]

\* The variables the connection check leaves alone.
connFrame == <<runnerVars, world, budget, runLog, behav, snap, pre, chroma>>

\* conn.main     where the calling thread is: "idle", "select", "returned"
\* conn.elapsed  whole seconds since the select was entered
\* conn.workers  the goroutines spawned, in spawning order, the last one being
\*               that of the call in progress; each is "running" (in
\*               cmd.Run()), "send" (at done <- err) or "exited", and holds err
\* conn.took     the case the select took: "done" or "timeout"
\* conn.result   the CheckResult returned
InitConn ==
    /\ NewRunner(<<>>, TRUE, TRUE)
    /\ world = {}
    /\ budget = <<>>
    /\ runLog = <<>>
    /\ behav = <<>>
    /\ snap = <<>>
    /\ pre = {}
    /\ chroma = <<>>
    /\ conn = [main |-> "idle", elapsed |-> 0, workers |-> <<>>,
               took |-> "none", result |-> NoResult]

\* The goroutine of the call in progress (or of the last call).
Current == Len(conn.workers)

\* done := make(chan error); go func() { done <- cmd.Run() }(); select {
ConnBegin ==
    /\ conn.main \in {"idle", "returned"}
    /\ Len(conn.workers) < MaxConnChecks
    /\ conn' = [main |-> "select", elapsed |-> 0,
                workers |-> Append(conn.workers, [state |-> "running", err |-> Nil]),
                took |-> "none", result |-> NoResult]
    /\ UNCHANGED connFrame

\* The external command of goroutine w terminates: cmd.Run() returns, and the
\* goroutine is at its send.
CmdReturns ==
    /\ \E w \in 1..Len(conn.workers), e \in {Nil} \cup CmdErrs :
        /\ conn.workers[w].state = "running"
        /\ conn' = [conn EXCEPT !.workers[w] = [state |-> "send", err |-> e]]
    /\ UNCHANGED connFrame

\* A second passes while the thread waits in the select.
Tick ==
    /\ conn.main = "select"
    /\ conn.elapsed < TimeoutSeconds
    /\ conn' = [conn EXCEPT !.elapsed = @ + 1]
    /\ UNCHANGED connFrame

\* case err := <-done: if err != nil { ... "connection failed" } ... "connected"
DoneResult(err) == IF err # Nil THEN ConnectionFailed ELSE Connected

\* The select takes `case err := <-done`: the send of the goroutine of this
\* call and the receive happen together, and the goroutine ends.
SelectDone ==
    /\ conn.main = "select"
    /\ conn.workers[Current].state = "send"
    /\ conn' = [conn EXCEPT !.main = "returned",
                            !.took = "done",
                            !.result = DoneResult(conn.workers[Current].err),
                            !.workers[Current].state = "exited"]
    /\ UNCHANGED connFrame

\* Mutant of SelectTimeout: there is no timeout case.
SelectTimeout_Missing ==
    /\ FALSE
    /\ UNCHANGED vars

\* The select takes `case <-time.After(5 * time.Second)`.
SelectTimeout ==
    /\ conn.main = "select"
    /\ conn.elapsed = TimeoutSeconds
    /\ conn' = [conn EXCEPT !.main = "returned",
                            !.took = "timeout",
                            !.result = ConnectionTimeout]
    /\ UNCHANGED connFrame

NextConn ==
    \/ ConnBegin
    \/ CmdReturns
    \/ Tick
    \/ SelectDone
    \/ SelectTimeout

\* Time passes and the thread runs; the external command need never terminate.
SpecConn == InitConn /\ [][NextConn]_vars /\ WF_vars(Tick) /\ WF_vars(SelectDone \/ SelectTimeout)


\* C23 (the connection check always answers): when checkEmacsMCPConnection
\* has returned, its result is OK "connected" exactly when the select received
\* a nil error from the command, Warning "connection failed" exactly when it
\* received a non-nil error, and Warning "connection timeout" exactly when it
\* took the timeout case, which it takes only after the five seconds; and a
\* call that waits in the select returns, even if the command never terminates.
C23_ConnAlwaysAnswers ==
    /\ [](conn.main = "returned" =>
            /\ conn.result \in {Connected, ConnectionFailed, ConnectionTimeout}
            /\ conn.result = Connected <=>
                  (conn.took = "done" /\ conn.workers[Current].err = Nil)
            /\ conn.result = ConnectionFailed <=>
                  (conn.took = "done" /\ conn.workers[Current].err # Nil)
            /\ conn.result = ConnectionTimeout <=> conn.took = "timeout"
            /\ conn.took = "timeout" => conn.elapsed = TimeoutSeconds
            /\ conn.took = "done" => conn.workers[Current].state = "exited")
    /\ [](conn.main = "select" => <>(conn.main = "returned"))

\* The call has returned "connection timeout" while its command is still running.
C23_Witness ==
    /\ conn.main = "returned"
    /\ conn.result = ConnectionTimeout
    /\ conn.workers[Current].state = "running"

\* C25 (no goroutine is left behind): a goroutine of checkEmacsMCPConnection
\* whose command has terminated, and which is at its send on done, has the
\* call that spawned it waiting in the select to receive, so that the send
\* does not block forever.
C25_SendNeverStuck ==
    \A w \in 1..Len(conn.workers) :
        conn.workers[w].state = "send" =>
            (w = Current /\ conn.main = "select")


----------------------------------------------------------------------------
\* `hive setup` followed by a rollback.  setupCmd does not roll back; this is
\* a caller of the setup package that, when RunAll has failed, invokes
\* RollbackFrom with the index of the step that failed, so that every step
\* attempted is rolled back.  pre keeps what was on the machine before the run.

\* The errors Rollback() of setup step s may return: CloneDepsStep,
\* DoomSyncStep, PrerequisitesStep, OllamaStep and EmacsDaemonStep `return nil`.
SetupRollbackErrs(s) ==
    IF s \in {CloneStep, ShellStep, ChromaStep, MCPStep}
    THEN {Nil} \cup RollbackErrs
    ELSE {Nil}

\* The machine after Rollback() of setup step s has returned err.
\*   CloneStep        os.RemoveAll(dir) if dir exists
\*   ShellStep        the marked section is removed from every rc file
\*   ChromaStep       docker compose down
\*   EmacsDaemonStep  (kill-emacs), whose result is not looked at
\*   MCPStep          claude mcp remove emacs
\* and nothing for the other four.  None asks whether Run() was invoked.
AfterRollback(s, err) ==
    IF s \in {PrerequisitesStep, CloneDepsStep, DoomSyncStep, OllamaStep} THEN {world}
    ELSE IF s = EmacsDaemonStep THEN {world, world \ {s}}
    ELSE IF err = Nil THEN {world \ {s}}
    ELSE IF s = MCPStep \/ s = ChromaStep THEN {world}
    ELSE {world, world \ {s}}

InitUndo ==
    /\ NewRunner(SetupSteps, TRUE, TRUE)
    /\ world \in SUBSET AllSetupSteps
    /\ pre = world
    /\ budget = <<>>
    /\ runLog = <<>>
    /\ behav = <<>>
    /\ snap = <<>>
    /\ conn = <<>>
    /\ chroma = <<>>

\* RunAll has returned an error: r.RollbackFrom(i), i the index of the step that failed.
UndoBegin ==
    /\ Returned
    /\ IsError(ret)
    /\ RollbackFromBegin
    /\ rbIndex' = Len(Results) - 1
    /\ UNCHANGED envVars

\* r.Steps[i].Rollback(), of a setup step
UndoIter ==
    /\ RollbackIter
    /\ IF InSteps(rbI)
       THEN /\ trace'[Len(trace')].err \in SetupRollbackErrs(Steps[rbI + 1])
            /\ world' \in AfterRollback(Steps[rbI + 1], trace'[Len(trace')].err)
       ELSE world' = world
    /\ UNCHANGED <<budget, runLog, behav, snap, apartVars>>

NextUndo ==
    \/ RunAllOnce
    \/ LoopNext /\ UNCHANGED envVars
    \/ LoopExit /\ UNCHANGED envVars
    \/ SetupCheckStep
    \/ Skip /\ UNCHANGED envVars
    \/ SetupRunStep
    \/ RecordRun /\ UNCHANGED envVars
    \/ UndoBegin
    \/ UndoIter
    \/ RollbackReturn /\ UNCHANGED envVars

SpecUndo == InitUndo /\ [][NextUndo]_vars

\* C24 (rollback spares what was there before): when the clone step was
\* skipped because the repository was on the machine before the run, the
\* repository is still there, also after RollbackFrom has invoked
\* CloneStep.Rollback().
C24_RollbackKeepsPreExisting ==
    (/\ CloneStep \in pre
     /\ Results # <<>>
     /\ IsSkipped(Results[1])) => CloneStep \in world


\* C26 (no setup Check() fails): in a `hive setup` run every Check() returns
\* a nil error, so RunAll never takes its "check failed for" path: every
\* failed Result holds the error of a Run() that was invoked, and every error
\* RunAll returns is a "step ... failed" error wrapping that Run() error.
C26_SetupChecksNeverError ==
    /\ \A p \in At("Check") : trace[p].err = Nil
    /\ pc = "checked" => ~CheckErrored(chk)
    /\ \A i \in 1..Len(Results) :
         Results[i].Error # Nil =>
            \E p \in AtOn("Run", StepOf(Results[i])) : trace[p].err = Results[i].Error
    /\ (Returned /\ IsError(ret)) =>
         /\ ret.msg = "step failed"
         /\ ret.name = Results[Len(Results)].StepName
         /\ Unwrap(ret) \in RunErrs
         /\ Unwrap(ret) = Results[Len(Results)].Error

\* The probe of the last step, MCP registration, found nothing (false, nil);
\* its Run() failed, and RunAll returned that failure.
C26_Witness ==
    /\ Returned
    /\ IsError(ret)
    /\ Len(Results) = Len(SetupSteps)
    /\ IsFailed(Results[Len(Results)])
    /\ \E p \in AtOn("Check", MCPStep) : ~trace[p].flag /\ trace[p].err = Nil


\* C27 (setup never rolls back): `hive setup` calls neither RollbackFrom nor
\* any step's Rollback(), also when RunAll has failed; and no goal state that
\* holds on the machine is undone, so what the steps before the failed one
\* established is there for the next run.
C27_SetupNeverRollsBack ==
    /\ [](/\ At("Rollback") = {}
          /\ pc # "rollback"
          /\ last # "RollbackFrom")
    /\ [][world \subseteq world']_vars

\* The last run ran the clone step with success and failed at a later step;
\* the present run has found the clone done and skipped it.
C27_Witness ==
    /\ snap # <<>>
    /\ IsError(snap.ret)
    /\ IsSucceeded(snap.Results[1])
    /\ Results # <<>>
    /\ IsSkipped(Results[1])


\* The steps Rollback() was invoked on, in call order.
RolledBackSteps == [p \in 1..Len(trace) |-> trace[p].step]

\* C28 (RollbackFrom is total over its index): a RollbackFrom that has
\* returned has invoked Rollback() on steps of the list only; with
\* index >= len(Steps) it has invoked it once on every step, from the last
\* down to Steps[0]; with index < 0 it has invoked no Rollback() and returns
\* an empty list.
C28_RollbackAnyIndex ==
    RolledBack =>
        /\ \A p \in 1..Len(trace) :
             trace[p].op = "Rollback" /\ \E i \in 1..N : Steps[i] = trace[p].step
        /\ rbIndex >= N => RolledBackSteps = [p \in 1..N |-> Steps[N + 1 - p]]
        /\ rbIndex < 0 => trace = <<>> /\ rbErrors = <<>>

\* RollbackFrom(len(Steps) + 1) over three steps has returned, after three
\* Rollback() calls of which the first failed.
C28_Witness ==
    /\ RolledBack
    /\ N = 3
    /\ rbIndex = N + 1
    /\ Len(trace) = 3
    /\ trace[1].err # Nil
    /\ Len(rbErrors) = 1


\* C29 (Results accumulates over invocations): no method takes an entry out
\* of Results or changes one; a RunAll invoked again on the same Runner starts
\* over at Steps[0] and appends after what is there; so when a second
\* invocation has returned nil after a first one that went through all N
\* steps, Results holds 2N entries, the steps' names twice over.
C29_ResultsAccumulate ==
    /\ [](/\ (last = "RunAll" /\ At("Check") # {}) =>
               \E p \in AtOn("Check", Steps[1]) : \A q \in At("Check") : p <= q
          /\ (runs = 2 /\ Returned /\ ret = NilReturn /\ base = N) =>
               /\ Len(Results) = 2 * N
               /\ \A i \in 1..N :
                    /\ Results[i].StepName = Name(Steps[i])
                    /\ Results[N + i].StepName = Name(Steps[i]))
    /\ [][/\ Len(Results') >= Len(Results)
          /\ SubSeq(Results', 1, Len(Results)) = Results]_vars

\* Two invocations over three steps have returned nil: six Results.
C29_Witness ==
    /\ runs = 2
    /\ Returned
    /\ ret = NilReturn
    /\ N = 3
    /\ base = 3
    /\ Len(Results) = 6
    /\ IsSucceeded(Results[1])
    /\ IsSucceeded(Results[4])


\* ChromaStep.Run: start the container, then wait for the heartbeat.

\* The number of heartbeat probes of the wait loop.
ProbeLimit == 15

\* What one client.Get of the heartbeat endpoint gives: an answer with a
\* status code, or an error (refused, or the client's two seconds ran out).
Responses ==
    { [err |-> Nil, status |-> 200],
      [err |-> Nil, status |-> 503],
      [err |-> "connection refused", status |-> 0] }

\* The errors Run returns; the first two wrap the command's error.
DockerNotRunning == [msg |-> "docker is not running", wraps |-> "exit status 1"]
FailedToStart == [msg |-> "failed to start Chroma", wraps |-> "exit status 1"]
StartTimeout == [msg |-> "Chroma failed to start within 30 seconds", wraps |-> Nil]

\* The variables ChromaStep.Run leaves alone.
chromaFrame == <<runnerVars, world, budget, runLog, behav, snap, pre, conn>>

\* chroma.pc      where Run is: "info", "up", "loop", "sleep", "returned"
\* chroma.i       the wait loop's counter
\* chroma.probes  the responses of the probes made, in order
\* chroma.ret     what Run returned
InitChroma ==
    /\ NewRunner(<<>>, TRUE, TRUE)
    /\ world = {}
    /\ budget = <<>>
    /\ runLog = <<>>
    /\ behav = <<>>
    /\ snap = <<>>
    /\ pre = {}
    /\ conn = <<>>
    /\ chroma = [pc |-> "info", i |-> 0, probes |-> <<>>, ret |-> NoReturn]

\* exec.Command("docker", "info").Run(): an error ends Run.
DockerInfo ==
    /\ chroma.pc = "info"
    /\ \E ok \in BOOLEAN :
        chroma' = IF ok
                  THEN [chroma EXCEPT !.pc = "up"]
                  ELSE [chroma EXCEPT !.pc = "returned", !.ret = DockerNotRunning]
    /\ UNCHANGED chromaFrame

\* docker compose up -d chroma: an error ends Run, success enters the loop.
ComposeUp ==
    /\ chroma.pc = "up"
    /\ \E ok \in BOOLEAN :
        chroma' = IF ok
                  THEN [chroma EXCEPT !.pc = "loop", !.i = 0]
                  ELSE [chroma EXCEPT !.pc = "returned", !.ret = FailedToStart]
    /\ UNCHANGED chromaFrame

\* Mutant of ProbeLoopCond: one probe more.
ProbeLoopCond_OneMore(i) == i <= ProbeLimit

\* The wait loop's condition.
ProbeLoopCond(i) == i < ProbeLimit

\* The test that ends the wait: the probe was answered, with status 200.
Ready(resp) == resp.err = Nil /\ resp.status = 200

\* One pass of the loop body up to the sleep: probe, return nil when ready.
Probe ==
    /\ chroma.pc = "loop"
    /\ ProbeLoopCond(chroma.i)
    /\ \E resp \in Responses :
        chroma' = IF Ready(resp)
                  THEN [chroma EXCEPT !.pc = "returned", !.ret = NilReturn,
                                      !.probes = Append(@, resp)]
                  ELSE [chroma EXCEPT !.pc = "sleep", !.probes = Append(@, resp)]
    /\ UNCHANGED chromaFrame

\* time.Sleep(2 * time.Second); i++
Sleep ==
    /\ chroma.pc = "sleep"
    /\ chroma' = [chroma EXCEPT !.pc = "loop", !.i = @ + 1]
    /\ UNCHANGED chromaFrame

\* The loop condition fails: Run returns the error after the loop.
GiveUp ==
    /\ chroma.pc = "loop"
    /\ ~ProbeLoopCond(chroma.i)
    /\ chroma' = [chroma EXCEPT !.pc = "returned", !.ret = StartTimeout]
    /\ UNCHANGED chromaFrame

NextChroma ==
    \/ DockerInfo
    \/ ComposeUp
    \/ Probe
    \/ Sleep
    \/ GiveUp

\* The two docker commands need never return; a probe returns (the client
\* has a timeout) and so does the sleep.
SpecChroma == InitChroma /\ [][NextChroma]_vars /\ WF_vars(Probe \/ Sleep \/ GiveUp)

\* The probes that were answered with status 200.
Answered200 == {p \in 1..Len(chroma.probes) : Ready(chroma.probes[p])}

\* C30 (ChromaStep.Run's wait): Run makes at most 15 probes; once the start
\* command has succeeded it returns; it returns nil exactly when a probe was
\* answered with status 200, that probe being its last one, and otherwise the
\* "failed to start within 30 seconds" error, after 15 probes; when Docker is
\* not running or the start command fails it returns that error with no probe
\* made.
C30_ChromaWait ==
    /\ [](/\ Len(chroma.probes) <= 15
          /\ chroma.pc = "returned" =>
               /\ chroma.ret = NilReturn <=> Answered200 # {}
               /\ Answered200 \subseteq {Len(chroma.probes)}
               /\ chroma.ret \in {NilReturn, StartTimeout, DockerNotRunning, FailedToStart}
               /\ chroma.ret = StartTimeout => Len(chroma.probes) = 15
               /\ chroma.ret \in {DockerNotRunning, FailedToStart} =>
                    chroma.probes = <<>>)
    /\ (chroma.pc = "loop") ~> (chroma.pc = "returned")

\* Run returned nil at its fifteenth probe, after fourteen that were not ready,
\* some answered and some not.
C30_Witness ==
    /\ chroma.pc = "returned"
    /\ chroma.ret = NilReturn
    /\ Len(chroma.probes) = 15
    /\ chroma.probes[1].err # Nil
    /\ chroma.probes[2].status = 503

====
